---- MODULE Spec2Model ----
(***************************************************************************)
(* Model of shy (src/main.rs): the interactive host picker.                *)
(*                                                                         *)
(* main() calls run(); run() loads the host map, puts the terminal in raw  *)
(* mode on the alternate screen, installs a panic hook, draws, and then    *)
(* loops: read one key, echo it, update (selected, mode, input), draw.     *)
(* run() returns Ok(Some(name)), Ok(None) or Err; main() execs ssh on      *)
(* Some(name).                                                             *)
(*                                                                         *)
(* Library behaviour the model relies on (termion, std):                   *)
(*  - into_raw_mode() reads the terminal's CURRENT attributes, keeps them  *)
(*    as prev_ios, and switches the terminal to raw;                       *)
(*  - suspend_raw_mode() and the RawTerminal destructor both write         *)
(*    prev_ios back;                                                       *)
(*  - String::truncate(n) panics when n is not on a char boundary;         *)
(*  - integer subtraction below zero panics when overflow checks are on    *)
(*    (debug profile) and wraps when they are off (release profile);       *)
(*  - a panic runs the installed hook and then unwinds, dropping locals.   *)
(***************************************************************************)
EXTENDS Integers, Sequences, FiniteSets, TLC

(* ---------------------------- bounds ----------------------------------- *)

\* longest host list that load_ssh_config() returns in the model
MaxHosts == 3

\* number of key events the input stream delivers before it ends
MaxKeys == 4

\* number of shutdown_terminal() calls SpecTerminal makes in one behaviour
MaxCalls == 3

(* ------------------------- integer widths ------------------------------ *)

\* terminal_size() and Goto() use u16
U16Max == 65535

\* `selected` and hosts.len() are usize; the largest value TLC's integers
\* hold stands for usize::MAX (only "far above every list length" matters)
UsizeMax == 2147483647

\* a - b on an unsigned type of maximum `max`, overflow checks off
WrapSub(a, b, max) == IF a >= b THEN a - b ELSE max - (b - a - 1)

(* ------------------------------ data ----------------------------------- *)

\* host names are sequences of characters
alpha == <<"a", "l", "p", "h", "a">>
beta == <<"b", "e", "t", "a">>
gamma == <<"g", "a", "m", "m", "a">>
delta == <<"d", "e", "l", "t", "a">>

HostPool == <<alpha, beta, gamma, delta>>

Min(a, b) == IF a <= b THEN a ELSE b

\* the host maps load_ssh_config() may return, in iteration order
HostLists == { SubSeq(HostPool, 1, n) : n \in 0..Min(MaxHosts, Len(HostPool)) }

\* characters a Key::Char carries; "é" takes two bytes in a String
Chars == {"q", "i", "s", "b", "z", "é"}

ByteLen(c) == IF c = "é" THEN 2 ELSE 1

\* termion::event::Key values the model delivers
Char(c) == <<"Char", c>>
Ctrl(c) == <<"Ctrl", c>>
Enter == Char("\n")
Up == <<"Up", "">>
Down == <<"Down", "">>
Esc == <<"Esc", "">>
Backspace == <<"Backspace", "">>
Left == <<"Left", "">>
NoKey == <<"", "">>

Keys == { Char(c) : c \in Chars } \cup { Enter, Up, Down, Esc, Backspace, Left }
          \cup { Ctrl("c"), Ctrl("p"), Ctrl("n") }

\* enum InputMode
InputMode == {"Search", "Navigate"}

\* the terminal before the program starts
NormalTerm == [raw |-> FALSE, hidden |-> FALSE, alt |-> FALSE]

Terms == [raw : BOOLEAN, hidden : BOOLEAN, alt : BOOLEAN]

(* ------------------------ terminal lifecycle --------------------------- *)

\* IntoRawMode::into_raw_mode: remember the current attributes, go raw
into_raw_mode(t) == [term |-> [t EXCEPT !.raw = TRUE], prev_ios |-> t.raw]

\* RawTerminal::suspend_raw_mode and RawTerminal::drop: write prev_ios back
set_terminal_attr(t, prev_ios) == [t EXCEPT !.raw = prev_ios]

\* where a call of setup_terminal() can fail
SetupFaults == {"none", "tcattr", "write0", "write1", "write2"}

\* setup_terminal(): raw mode, alternate screen, hidden cursor.  `fault`
\* names the failing call; "writeN" is a failed flush after N of the escape
\* sequences reached the terminal.  On Err the RawTerminal is dropped.
setup_terminal(t, fault) ==
    LET g  == into_raw_mode(t)
        t1 == [g.term EXCEPT !.alt = TRUE]
        t2 == [t1 EXCEPT !.hidden = TRUE]
    IN  CASE fault = "none"   -> [term |-> t2, ok |-> TRUE, prev_ios |-> g.prev_ios]
          [] fault = "tcattr" -> [term |-> t, ok |-> FALSE, prev_ios |-> g.prev_ios]
          [] fault = "write0" ->
                [term |-> set_terminal_attr(g.term, g.prev_ios), ok |-> FALSE,
                 prev_ios |-> g.prev_ios]
          [] fault = "write1" ->
                [term |-> set_terminal_attr(t1, g.prev_ios), ok |-> FALSE,
                 prev_ios |-> g.prev_ios]
          [] fault = "write2" ->
                [term |-> set_terminal_attr(t2, g.prev_ios), ok |-> FALSE,
                 prev_ios |-> g.prev_ios]

\* where a call of shutdown_terminal() can fail
ShutdownFaults == {"none", "tcattr", "write0", "write1"}

\* shutdown_terminal(): a temporary RawTerminal is made from the terminal as
\* it is now, suspended and dropped (both write its prev_ios, the attributes
\* found on entry); then ShowCursor, ToMainScreen and a flush.
shutdown_terminal(t, fault) ==
    LET g  == into_raw_mode(t)
        t0 == set_terminal_attr(set_terminal_attr(g.term, g.prev_ios), g.prev_ios)
        t1 == [t0 EXCEPT !.hidden = FALSE]
        t2 == [t1 EXCEPT !.alt = FALSE]
    IN  CASE fault = "none"   -> [term |-> t2, ok |-> TRUE]
          [] fault = "tcattr" -> [term |-> t,  ok |-> FALSE]
          [] fault = "write0" -> [term |-> t0, ok |-> FALSE]
          [] fault = "write1" -> [term |-> t1, ok |-> FALSE]

(* ------------------------------ draw ----------------------------------- *)

NoFrame == [prompt |-> <<>>, promptRow |-> 0, statusRow |-> 0, entries |-> <<>>]

\* where a call of draw() can fail
DrawFaults == {"none", "size", "write"}

\* draw(): the prompt at row rows-2, the status line at row rows-1 and host
\* i (counted from 0) at row 3+i, marked when i = selected.  rows is a u16.
draw(hs, sel, inp, rws, checks, fault) ==
    IF fault = "size" THEN [kind |-> "err", frame |-> NoFrame]
    ELSE IF rws < 2 /\ checks THEN [kind |-> "panic", frame |-> NoFrame]
    ELSE IF fault = "write" THEN [kind |-> "err", frame |-> NoFrame]
    ELSE [kind |-> "ok",
          frame |-> [prompt    |-> inp,
                     promptRow |-> WrapSub(rws, 2, U16Max),
                     statusRow |-> WrapSub(rws, 1, U16Max),
                     entries   |-> [i \in 1..Len(hs) |->
                                      [row    |-> 3 + (i - 1),
                                       host   |-> hs[i],
                                       marked |-> (i - 1 = sel)]]]]

(* --------------------------- key handling ------------------------------ *)

Outcome(k, m, sel, inp, nm) ==
    [kind |-> k, mode |-> m, selected |-> sel, input |-> inp, name |-> nm]

\* confirm() taking the first host whatever the cursor
confirm_first(hs, m, sel, inp) ==
    IF sel < Len(hs) THEN Outcome("chosen", m, sel, inp, hs[1])
    ELSE Outcome("panic", m, sel, inp, <<>>)

\* hosts.iter().nth(selected), lines 76 and 96
confirm(hs, m, sel, inp) ==
    IF sel < Len(hs) THEN Outcome("chosen", m, sel, inp, hs[sel + 1])
    ELSE Outcome("panic", m, sel, inp, <<>>)

\* Key::Up | Key::Ctrl('p'), lines 61-67
move_up(hs, m, sel, inp, checks) ==
    IF sel = 0
    THEN IF Len(hs) = 0 /\ checks THEN Outcome("panic", m, sel, inp, <<>>)
         ELSE Outcome("continue", m, WrapSub(Len(hs), 1, UsizeMax), inp, <<>>)
    ELSE Outcome("continue", m, sel - 1, inp, <<>>)

\* move_down() comparing with > where the code has >=
move_down_gt(hs, m, sel, inp, checks) ==
    IF Len(hs) = 0 /\ checks THEN Outcome("panic", m, sel, inp, <<>>)
    ELSE IF sel > WrapSub(Len(hs), 1, UsizeMax)
         THEN Outcome("continue", m, 0, inp, <<>>)
         ELSE Outcome("continue", m, sel + 1, inp, <<>>)

\* Key::Down | Key::Ctrl('n'), lines 68-74
move_down(hs, m, sel, inp, checks) ==
    IF Len(hs) = 0 /\ checks THEN Outcome("panic", m, sel, inp, <<>>)
    ELSE IF sel >= WrapSub(Len(hs), 1, UsizeMax)
         THEN Outcome("continue", m, 0, inp, <<>>)
         ELSE Outcome("continue", m, sel + 1, inp, <<>>)

\* Key::Backspace, lines 90-94: truncate to one BYTE less
backspace(m, sel, inp) ==
    IF inp = <<>> THEN Outcome("continue", m, sel, inp, <<>>)
    ELSE IF ByteLen(inp[Len(inp)]) = 1
         THEN Outcome("continue", m, sel, SubSeq(inp, 1, Len(inp) - 1), <<>>)
         ELSE Outcome("panic", m, sel, inp, <<>>)

\* quit() falling through to `_ => {}`
quit_ignored(m, sel, inp) == Outcome("continue", m, sel, inp, <<>>)

\* Key::Char('q') | Key::Ctrl('c') in Navigate, line 59
quit(m, sel, inp) == Outcome("break", m, sel, inp, <<>>)

\* Key::Char('i') | Key::Char('s') in Navigate, line 60
enter_search(m, sel, inp) == Outcome("continue", "Search", sel, inp, <<>>)

\* cancel_search() without input.clear()
cancel_search_keep(m, sel, inp) == Outcome("continue", "Navigate", sel, inp, <<>>)

\* Key::Ctrl('c') | Key::Esc in Search, lines 86-89
cancel_search(m, sel, inp) == Outcome("continue", "Navigate", sel, <<>>, <<>>)

\* push_char() with 'q' still bound to quit in Search mode
push_char_quit(m, sel, inp, c) ==
    IF c = "q" THEN Outcome("break", m, sel, inp, <<>>)
    ELSE Outcome("continue", m, sel, Append(inp, c), <<>>)

\* Key::Char(c) in Search, lines 103-105
push_char(m, sel, inp, c) == Outcome("continue", m, sel, Append(inp, c), <<>>)

\* the arms `_ => {}`, lines 83 and 106
ignore_key(m, sel, inp) == Outcome("continue", m, sel, inp, <<>>)

\* the match on (mode, event), lines 57-108
handle_key(hs, m, sel, inp, ev, checks) ==
    IF m = "Navigate"
    THEN CASE ev \in {Char("q"), Ctrl("c")} -> quit(m, sel, inp)
           [] ev \in {Char("i"), Char("s")} -> enter_search(m, sel, inp)
           [] ev \in {Up, Ctrl("p")}        -> move_up(hs, m, sel, inp, checks)
           [] ev \in {Down, Ctrl("n")}      -> move_down(hs, m, sel, inp, checks)
           [] ev = Enter                    -> confirm(hs, m, sel, inp)
           [] OTHER                         -> ignore_key(m, sel, inp)
    ELSE CASE ev \in {Ctrl("c"), Esc}       -> cancel_search(m, sel, inp)
           [] ev = Backspace                -> backspace(m, sel, inp)
           [] ev = Enter                    -> confirm(hs, m, sel, inp)
           [] ev[1] = "Char"                -> push_char(m, sel, inp, ev[2])
           [] OTHER                         -> ignore_key(m, sel, inp)

(* ------------------------------ state ---------------------------------- *)

VARIABLES
    pc,               \* position: "load", "setup", "hook", "first_draw", "loop",
                      \*   "panic_reported", "run_return", "main", "execd", "exited"
    hosts,            \* run(): hosts
    selected,         \* run(): selected
    mode,             \* run(): mode
    input,            \* run(): input, as a sequence of characters
    stdout,           \* run(): the RawTerminal guard made by setup_terminal()
    term,             \* the terminal: raw mode, cursor hidden, alternate screen
    hook,             \* whether the panic hook is installed
    frame,            \* what the last successful draw() wrote
    event,            \* the key event read last
    keys_read,        \* number of key events read
    keys_seen,        \* the key events read, while they follow one of Scripts
    result,           \* what run() returns
    fault,            \* the call that reported an io::Error, or "none"
    teardowns,        \* number of calls of shutdown_terminal()
    rows,             \* terminal_size().1
    overflow_checks,  \* build profile: arithmetic overflow panics (debug)
    execs,            \* number of calls of Command::exec
    exit_code         \* process exit status, -1 while running

vars == <<pc, hosts, selected, mode, input, stdout, term, hook, frame, event,
          keys_read, keys_seen, result, fault, teardowns, rows,
          overflow_checks, execs, exit_code>>

\* terminal heights the model runs with
TermRows == {1, 24}

\* the key sequences of the end-to-end scenarios
Scripts == { <<Down, Down, Down, Enter>>,
             <<Char("i"), Char("b"), Enter>>,
             <<Char("i"), Char("z"), Enter, Esc>>,
             <<Down, Char("i"), Char("b"), Esc>>,
             <<Char("i"), Char("z"), Ctrl("c"), Ctrl("c")>>,
             <<Char("i"), Char("q"), Char("i"), Char("s")>> }

Prefixes == UNION { { SubSeq(s, 1, n) : n \in 0..Len(s) } : s \in Scripts }

Track(ks, ev) == IF Append(ks, ev) \in Prefixes THEN Append(ks, ev) ELSE <<NoKey>>

\* values of run()'s Result<Option<String>, io::Error>
Pending == [kind |-> "Pending",   name |-> <<>>]
Cancelled == [kind |-> "Cancelled", name |-> <<>>]
Failed == [kind |-> "Err",       name |-> <<>>]
Chosen(nm) == [kind |-> "Chosen",    name |-> nm]

NoGuard == [live |-> FALSE, prev_ios |-> FALSE]

Init ==
    /\ pc = "load"
    /\ hosts = <<>>
    /\ selected = 0
    /\ mode = "Navigate"
    /\ input = <<>>
    /\ stdout = NoGuard
    /\ term = NormalTerm
    /\ hook = FALSE
    /\ frame = NoFrame
    /\ event = NoKey
    /\ keys_read = 0
    /\ keys_seen = <<>>
    /\ result = Pending
    /\ fault = "none"
    /\ teardowns = 0
    /\ rows \in TermRows
    /\ overflow_checks \in BOOLEAN
    /\ execs = 0
    /\ exit_code = -1

(* ----------------------------- actions --------------------------------- *)

\* LoadConfig() with the terminal set up before the host map is loaded
LoadConfigAfterSetup ==
    /\ pc = "load"
    /\ \/ /\ hosts' \in HostLists
          /\ pc' = "setup"
          /\ UNCHANGED <<result, fault, term>>
       \/ /\ result' = Failed
          /\ fault' = "load"
          /\ pc' = "run_return"
          /\ term' = setup_terminal(term, "none").term
          /\ UNCHANGED hosts
    /\ UNCHANGED <<selected, mode, input, stdout, hook, frame, event,
                   keys_read, keys_seen, teardowns, rows, overflow_checks,
                   execs, exit_code>>

\* line 42: load_ssh_config()?
LoadConfig ==
    /\ pc = "load"
    /\ \/ /\ hosts' \in HostLists
          /\ pc' = "setup"
          /\ UNCHANGED <<result, fault>>
       \/ /\ result' = Failed
          /\ fault' = "load"
          /\ pc' = "run_return"
          /\ UNCHANGED hosts
    /\ UNCHANGED <<selected, mode, input, stdout, term, hook, frame, event,
                   keys_read, keys_seen, teardowns, rows, overflow_checks,
                   execs, exit_code>>

\* line 43: setup_terminal()?
SetupTerminal ==
    /\ pc = "setup"
    /\ \E f \in SetupFaults :
         LET s == setup_terminal(term, f)
         IN  /\ term' = s.term
             /\ IF s.ok
                THEN /\ stdout' = [live |-> TRUE, prev_ios |-> s.prev_ios]
                     /\ pc' = "hook"
                     /\ UNCHANGED <<result, fault>>
                ELSE /\ result' = Failed
                     /\ fault' = "setup"
                     /\ pc' = "run_return"
                     /\ UNCHANGED stdout
    /\ UNCHANGED <<hosts, selected, mode, input, hook, frame, event, keys_read,
                   keys_seen, teardowns, rows, overflow_checks, execs, exit_code>>

\* line 44: setup_panic_hook()
SetupPanicHook ==
    /\ pc = "hook"
    /\ hook' = TRUE
    /\ pc' = "first_draw"
    /\ UNCHANGED <<hosts, selected, mode, input, stdout, term, frame, event,
                   keys_read, keys_seen, result, fault, teardowns, rows,
                   overflow_checks, execs, exit_code>>

\* a panic: the hook (when installed) calls shutdown_terminal(), drops its
\* Result and prints the message
Panic(hf) ==
    /\ pc' = "panic_reported"
    /\ IF hook
       THEN /\ term' = shutdown_terminal(term, hf).term
            /\ teardowns' = teardowns + 1
            /\ fault' = IF hf = "none" THEN fault ELSE "hook"
       ELSE UNCHANGED <<term, teardowns, fault>>
    /\ UNCHANGED result

\* `?` on an io::Error inside run()
ReturnErr(site) ==
    /\ result' = Failed
    /\ fault' = site
    /\ pc' = "run_return"
    /\ UNCHANGED <<term, teardowns>>

\* ShutdownAndReturn() without the call of shutdown_terminal()
ReturnWithoutShutdown(value, sf) ==
    /\ result' = value
    /\ pc' = "run_return"
    /\ UNCHANGED <<term, teardowns, fault>>

\* shutdown_terminal()? followed by the return of `value`
ShutdownAndReturn(value, sf) ==
    LET s == shutdown_terminal(term, sf)
    IN  /\ term' = s.term
        /\ teardowns' = teardowns + 1
        /\ pc' = "run_return"
        /\ IF s.ok
           THEN result' = value /\ UNCHANGED fault
           ELSE result' = Failed /\ fault' = "shutdown"

\* lines 50-51: update()?; draw(&hosts, selected, "")?
FirstDraw ==
    /\ pc = "first_draw"
    /\ \E df \in DrawFaults, hf \in ShutdownFaults :
         LET d == draw(hosts, selected, <<>>, rows, overflow_checks, df)
         IN  CASE d.kind = "ok" ->
                    /\ frame' = d.frame
                    /\ pc' = "loop"
                    /\ UNCHANGED <<term, teardowns, result, fault>>
               [] d.kind = "err" ->
                    /\ ReturnErr("draw")
                    /\ UNCHANGED frame
               [] d.kind = "panic" ->
                    /\ Panic(hf)
                    /\ UNCHANGED frame
    /\ UNCHANGED <<hosts, selected, mode, input, stdout, hook, event, keys_read,
                   keys_seen, rows, overflow_checks, execs, exit_code>>

\* where the echo of the event (lines 54-55) can fail
EchoFaults == {"none", "write"}

\* lines 53-111: one iteration of the loop: read a key, echo it, match on
\* (mode, event), draw.  `break` runs lines 113-114.
KeyEvent ==
    /\ pc = "loop"
    /\ keys_read < MaxKeys
    /\ \E ev \in Keys, ef \in EchoFaults, sf \in ShutdownFaults, df \in DrawFaults :
         LET o == handle_key(hosts, mode, selected, input, ev, overflow_checks)
             d == draw(hosts, o.selected, o.input, rows, overflow_checks, df)
         IN  /\ event' = ev
             /\ keys_read' = keys_read + 1
             /\ keys_seen' = Track(keys_seen, ev)
             /\ CASE ef = "write" ->
                        /\ ReturnErr("echo")
                        /\ UNCHANGED <<selected, mode, input, frame>>
                  [] ef = "none" /\ o.kind = "break" ->
                        /\ ShutdownAndReturn(Cancelled, sf)
                        /\ UNCHANGED <<selected, mode, input, frame>>
                  [] ef = "none" /\ o.kind = "chosen" ->
                        /\ ShutdownAndReturn(Chosen(o.name), sf)
                        /\ UNCHANGED <<selected, mode, input, frame>>
                  [] ef = "none" /\ o.kind = "panic" ->
                        /\ Panic(sf)
                        /\ UNCHANGED <<selected, mode, input, frame>>
                  [] ef = "none" /\ o.kind = "continue" ->
                        /\ selected' = o.selected
                        /\ mode' = o.mode
                        /\ input' = o.input
                        /\ CASE d.kind = "ok" ->
                                   /\ frame' = d.frame
                                   /\ pc' = "loop"
                                   /\ UNCHANGED <<term, teardowns, result, fault>>
                             [] d.kind = "err" ->
                                   /\ ReturnErr("draw")
                                   /\ UNCHANGED frame
                             [] d.kind = "panic" ->
                                   /\ Panic(sf)
                                   /\ UNCHANGED frame
    /\ UNCHANGED <<hosts, stdout, hook, rows, overflow_checks, execs, exit_code>>

\* line 53 yields None (or an Err item): the loop ends, lines 113-114
EndOfInput ==
    /\ pc = "loop"
    /\ \E sf \in ShutdownFaults : ShutdownAndReturn(Cancelled, sf)
    /\ UNCHANGED <<hosts, selected, mode, input, stdout, hook, frame, event,
                   keys_read, keys_seen, rows, overflow_checks, execs, exit_code>>

\* dropping run()'s locals: the RawTerminal writes its prev_ios back
drop_stdout(t, guard) == IF guard.live THEN set_terminal_attr(t, guard.prev_ios) ELSE t

\* run() returns to main()
RunReturn ==
    /\ pc = "run_return"
    /\ term' = drop_stdout(term, stdout)
    /\ stdout' = NoGuard
    /\ pc' = "main"
    /\ UNCHANGED <<hosts, selected, mode, input, hook, frame, event, keys_read,
                   keys_seen, result, fault, teardowns, rows, overflow_checks,
                   execs, exit_code>>

\* after the hook has printed the message the panic unwinds out of main()
Unwind ==
    /\ pc = "panic_reported"
    /\ term' = drop_stdout(term, stdout)
    /\ stdout' = NoGuard
    /\ pc' = "exited"
    /\ exit_code' = 101
    /\ UNCHANGED <<hosts, selected, mode, input, hook, frame, event, keys_read,
                   keys_seen, result, fault, teardowns, rows, overflow_checks,
                   execs>>

\* Main() calling exec on every Ok result of run()
MainExecAlways ==
    /\ pc = "main"
    /\ CASE result.kind = "Err" ->
               /\ pc' = "exited"
               /\ exit_code' = 1
               /\ UNCHANGED execs
         [] result.kind \in {"Cancelled", "Chosen"} ->
               /\ execs' = execs + 1
               /\ \/ pc' = "execd" /\ UNCHANGED exit_code
                  \/ pc' = "exited" /\ exit_code' = 0
    /\ UNCHANGED <<hosts, selected, mode, input, stdout, term, hook, frame,
                   event, keys_read, keys_seen, result, fault, teardowns, rows,
                   overflow_checks>>

\* main(), lines 29-39
Main ==
    /\ pc = "main"
    /\ CASE result.kind = "Err" ->
               /\ pc' = "exited"
               /\ exit_code' = 1
               /\ UNCHANGED execs
         [] result.kind = "Cancelled" ->
               /\ pc' = "exited"
               /\ exit_code' = 0
               /\ UNCHANGED execs
         [] result.kind = "Chosen" ->
               /\ execs' = execs + 1
               /\ \/ pc' = "execd" /\ UNCHANGED exit_code
                  \/ pc' = "exited" /\ exit_code' = 0
    /\ UNCHANGED <<hosts, selected, mode, input, stdout, term, hook, frame,
                   event, keys_read, keys_seen, result, fault, teardowns, rows,
                   overflow_checks>>

Next ==
    \/ LoadConfig
    \/ SetupTerminal
    \/ SetupPanicHook
    \/ FirstDraw
    \/ KeyEvent
    \/ EndOfInput
    \/ RunReturn
    \/ Unwind
    \/ Main

Spec == Init /\ [][Next]_vars

TypeOK ==
    /\ pc \in {"load", "setup", "hook", "first_draw", "loop", "panic_reported",
               "run_return", "main", "execd", "exited", "terminal"}
    /\ hosts \in HostLists
    /\ selected \in 0..UsizeMax
    /\ mode \in InputMode
    /\ term \in Terms
    /\ keys_read \in 0..MaxKeys
    /\ result.kind \in {"Pending", "Cancelled", "Err", "Chosen"}

(* ------------- the terminal functions on every terminal state ---------- *)

\* SpecTerminal applies setup_terminal(), shutdown_terminal() and the drop
\* of the RawTerminal, in any order, starting from every terminal state.

InitTerminal ==
    /\ pc = "terminal"
    /\ term \in Terms
    /\ hosts = <<>>
    /\ selected = 0
    /\ mode = "Navigate"
    /\ input = <<>>
    /\ stdout = NoGuard
    /\ hook = FALSE
    /\ frame = NoFrame
    /\ event = NoKey
    /\ keys_read = 0
    /\ keys_seen = <<>>
    /\ result = Pending
    /\ fault = "none"
    /\ teardowns = 0
    /\ rows = 24
    /\ overflow_checks = FALSE
    /\ execs = 0
    /\ exit_code = -1

CallShutdown ==
    /\ pc = "terminal"
    /\ teardowns < MaxCalls
    /\ \E f \in ShutdownFaults :
         LET s == shutdown_terminal(term, f)
         IN  /\ term' = s.term
             /\ fault' = IF s.ok THEN "none" ELSE "shutdown"
    /\ teardowns' = teardowns + 1
    /\ UNCHANGED <<pc, hosts, selected, mode, input, stdout, hook, frame, event,
                   keys_read, keys_seen, result, rows, overflow_checks, execs,
                   exit_code>>

CallSetup ==
    /\ pc = "terminal"
    /\ ~stdout.live
    /\ \E f \in SetupFaults :
         LET s == setup_terminal(term, f)
         IN  /\ term' = s.term
             /\ fault' = IF s.ok THEN "none" ELSE "setup"
             /\ stdout' = IF s.ok THEN [live |-> TRUE, prev_ios |-> s.prev_ios]
                                  ELSE NoGuard
    /\ UNCHANGED <<pc, hosts, selected, mode, input, hook, frame, event,
                   keys_read, keys_seen, result, teardowns, rows,
                   overflow_checks, execs, exit_code>>

DropGuard ==
    /\ pc = "terminal"
    /\ stdout.live
    /\ term' = drop_stdout(term, stdout)
    /\ stdout' = NoGuard
    /\ UNCHANGED <<pc, hosts, selected, mode, input, hook, frame, event,
                   keys_read, keys_seen, result, fault, teardowns, rows,
                   overflow_checks, execs, exit_code>>

NextTerminal == CallShutdown \/ CallSetup \/ DropGuard

SpecTerminal == InitTerminal /\ [][NextTerminal]_vars

(* --------------------- what the specification says --------------------- *)

\* buf occurs in name as a contiguous, case-sensitive substring
Contains(name, buf) ==
    \E i \in 0..(Len(name) - Len(buf)) : SubSeq(name, i + 1, i + Len(buf)) = buf

\* the visible list of the specification: the hosts whose name contains buf
Visible(hs, buf) ==
    LET Match(h) == Contains(h, buf) IN SelectSeq(hs, Match)

\* the host names of a frame, in drawing order
FrameHosts(fr) == [i \in 1..Len(fr.entries) |-> fr.entries[i].host]

UpKeys == {Up, Ctrl("p")}
DownKeys == {Down, Ctrl("n")}

\* this step is a loop iteration whose match on (mode, event) ran
KeyHandled == pc = "loop" /\ keys_read' = keys_read + 1 /\ fault' # "echo"

OkResults == {"Chosen", "Cancelled"}

(* ------------------------------ claims --------------------------------- *)

\* C1: with N > 0 hosts the cursor stays in [0, N-1]; in Navigate mode Up at
\* 0 gives N-1, Down at N-1 gives 0, otherwise Up subtracts 1 and Down adds 1.
C1_CursorCircular ==
    /\ [](Len(hosts) > 0 => selected \in 0..(Len(hosts) - 1))
    /\ [][ (KeyHandled /\ mode = "Navigate" /\ Len(hosts) > 0) =>
             /\ event' \in UpKeys =>
                  selected' = IF selected = 0 THEN Len(hosts) - 1 ELSE selected - 1
             /\ event' \in DownKeys =>
                  selected' = IF selected = Len(hosts) - 1 THEN 0 ELSE selected + 1
             /\ event' \in UpKeys \cup DownKeys => mode' = mode /\ input' = input
          ]_vars

\* Down, Down, Down on three hosts has wrapped the cursor back to 0
C1_Witness ==
    /\ pc = "loop"
    /\ hosts = <<alpha, beta, gamma>>
    /\ keys_seen = <<Down, Down, Down>>
    /\ selected = 0

\* C2: Enter in Navigate mode with N > 0 hosts ends the loop with
\* Chosen(name at the cursor), which is the one entry the last frame marks;
\* on [alpha, beta, gamma] Down, Down, Down, Enter gives Chosen(alpha).
\* (When shutdown_terminal() itself reports an io::Error, run() returns it.)
C2_EnterChoosesMarked ==
    /\ [][ (KeyHandled /\ mode = "Navigate" /\ event' = Enter /\ Len(hosts) > 0) =>
             /\ pc' = "run_return"
             /\ result'.kind \in {"Chosen", "Err"}
             /\ fault' = "none" => result' = Chosen(hosts[selected + 1])
             /\ FrameHosts(frame) = hosts
             /\ \A i \in 1..Len(frame.entries) :
                    frame.entries[i].marked <=> (i = selected + 1)
          ]_vars
    /\ [](/\ hosts = <<alpha, beta, gamma>>
          /\ keys_seen = <<Down, Down, Down, Enter>>
          /\ fault = "none"
          => result = Chosen(alpha))

C2_Witness ==
    /\ pc = "main"
    /\ hosts = <<alpha, beta, gamma>>
    /\ keys_seen = <<Down, Down, Down, Enter>>
    /\ result = Chosen(alpha)

\* C3: the frame drawn for the current state lists exactly the hosts whose
\* name contains the search buffer, in host-list order.
C3_FrameShowsVisible ==
    pc = "loop" => FrameHosts(frame) = Visible(hosts, input)

\* C4: Enter in Search mode returns the cursor-th entry of the filtered
\* list; on [alpha, beta, gamma] the keys i, b, Enter give Chosen(beta).
\* (mode, selected and input are as they were when Enter was read.)
C4_SearchEnterFiltered ==
    /\ (result.kind = "Chosen" /\ mode = "Search") =>
          /\ selected < Len(Visible(hosts, input))
          /\ result.name = Visible(hosts, input)[selected + 1]
    /\ (/\ hosts = <<alpha, beta, gamma>>
        /\ keys_seen = <<Char("i"), Char("b"), Enter>>
        /\ fault = "none")
          => result = Chosen(beta)

\* C5: Enter on an empty visible list changes nothing in either mode: no
\* result, no panic, and the loop goes on.
C5_EnterOnEmptyIsNoOp ==
    [][ (KeyHandled /\ event' = Enter /\ Visible(hosts, input) = <<>>) =>
          /\ pc' # "panic_reported"
          /\ result'.kind \notin OkResults
          /\ mode' = mode /\ selected' = selected /\ input' = input
          /\ fault' = "none" => pc' = "loop"
      ]_vars

\* C6: Esc or Ctrl-C in Search mode gives mode = Navigate and an empty
\* buffer, keeps the cursor, produces no result, and the loop goes on
\* (unless the draw that follows reports an io::Error).
C6_CancelSearch ==
    [][ (KeyHandled /\ mode = "Search" /\ event' \in {Esc, Ctrl("c")}) =>
          /\ mode' = "Navigate"
          /\ input' = <<>>
          /\ selected' = selected
          /\ result'.kind \notin OkResults
          /\ pc' \in {"loop", "run_return"}
          /\ fault' = "none" => (pc' = "loop" /\ result' = Pending)
      ]_vars

\* Down, i, b, Esc: back in Navigate with an empty buffer and the cursor at 1
C6_Witness ==
    /\ pc = "loop"
    /\ keys_seen = <<Down, Char("i"), Char("b"), Esc>>
    /\ mode = "Navigate"
    /\ input = <<>>
    /\ selected = 1

\* C7: whenever run() has an Ok result (quit, confirmed selection, end of
\* input), shutdown_terminal() has been called exactly once, already before
\* run() returns; it is not called while the loop runs.
C7_TeardownOnceBeforeReturn ==
    /\ result.kind \in OkResults =>
          (teardowns = 1 /\ pc \in {"run_return", "main", "execd", "exited"})
    /\ pc \in {"load", "setup", "hook", "first_draw", "loop"} => teardowns = 0

\* Ctrl-C in Navigate: teardown done, run() about to return Ok(None)
C7_Witness ==
    /\ pc = "run_return"
    /\ event = Ctrl("c")
    /\ result = Cancelled
    /\ stdout.live
    /\ teardowns = 1

\* C8: when a write or flush fails after setup (the echo of the event or a
\* draw), teardown runs before run() returns the error, and the terminal is
\* left in normal mode, cursor shown, main screen.
C8_TeardownOnIoError ==
    (pc \in {"main", "exited"} /\ fault \in {"echo", "draw"}) =>
        (teardowns >= 1 /\ term = NormalTerm)

\* C9: the hook is installed before the first key is read, and when the
\* message of a panic raised in the loop is printed the hook has torn the
\* terminal down: not raw, not on the alternate screen, cursor shown.
C9_TeardownBeforePanicMessage ==
    /\ keys_read > 0 => hook
    /\ (pc = "panic_reported" /\ keys_read > 0 /\ fault = "none") =>
          (teardowns >= 1 /\ ~term.raw /\ ~term.alt /\ ~term.hidden)

\* C10: from every terminal state one shutdown_terminal() gives normal
\* input mode, cursor shown, main screen, and a second call right after it
\* gives the same state and no error.
C10_TeardownIdempotent ==
    [][ (pc = "terminal" /\ teardowns' = teardowns + 1 /\ fault' = "none") =>
          /\ term' = NormalTerm
          /\ shutdown_terminal(term', "none") = [term |-> term', ok |-> TRUE]
      ]_vars

\* C11: Command::exec is called at most once, and only with run()'s result
\* Chosen, after run() has returned with the terminal torn down (one
\* shutdown_terminal() call, guard dropped, terminal normal); never on
\* Cancelled or Err.
C11_ExecOnlyAfterChosen ==
    /\ execs <= 1
    /\ execs = 1 =>
          /\ result.kind = "Chosen"
          /\ pc \in {"execd", "exited"}
          /\ teardowns = 1
          /\ ~stdout.live
          /\ term = NormalTerm
    /\ pc = "execd" => execs = 1

\* ssh has replaced the process after Down, Down, Down, Enter
C11_Witness ==
    /\ pc = "execd"
    /\ execs = 1
    /\ result = Chosen(alpha)
    /\ keys_seen = <<Down, Down, Down, Enter>>

\* C12: the exit status is 0 after a normal end (Cancelled included) and
\* non-zero when load_ssh_config() fails or exec fails to start ssh.
C12_ExitCodes ==
    pc = "exited" =>
        /\ result = Cancelled => exit_code = 0
        /\ fault = "load" => exit_code # 0
        /\ execs = 1 => exit_code # 0

\* C13: when load_ssh_config() fails run() returns the error at once: no
\* terminal setup, no panic hook, no key read, nothing drawn.
C13_LoadFailureTouchesNothing ==
    fault = "load" =>
        /\ result = Failed
        /\ pc \in {"run_return", "main", "exited"}
        /\ term = NormalTerm
        /\ ~stdout.live
        /\ ~hook
        /\ keys_read = 0
        /\ frame = NoFrame
        /\ teardowns = 0
        /\ execs = 0

\* the process has exited with status 1 after the failed load
C13_Witness ==
    /\ fault = "load"
    /\ pc = "exited"
    /\ exit_code = 1

Max(a, b) == IF a >= b THEN a ELSE b

\* C14: the cursor always lies in [0, max(0, visible_count - 1)], where
\* visible_count counts the hosts whose name contains the buffer (stated
\* here for a host map that is not empty; the empty map is C17's case).
C14_CursorInVisibleRange ==
    (pc = "loop" /\ hosts # <<>>) =>
        selected \in 0..Max(0, Len(Visible(hosts, input)) - 1)

\* C15: in Search mode a character key other than Enter (q, i and s too)
\* appends that character and does not quit, change mode or move the cursor;
\* Enter is never appended; in Navigate mode q or Ctrl-C ends the loop with
\* Cancelled, and i or s switches to Search keeping buffer and cursor.
C15_ModeDependentKeys ==
    /\ [][ (KeyHandled /\ mode = "Search" /\ event'[1] = "Char" /\ event' # Enter) =>
             /\ input' = Append(input, event'[2])
             /\ mode' = "Search"
             /\ selected' = selected
             /\ result'.kind \notin OkResults
             /\ fault' = "none" => (pc' = "loop" /\ result' = Pending)
          ]_vars
    /\ [][ (KeyHandled /\ event' = Enter) => input' = input ]_vars
    /\ [](\A i \in 1..Len(input) : input[i] # "\n")
    /\ [][ (KeyHandled /\ mode = "Navigate" /\ event' \in {Char("q"), Ctrl("c")}) =>
             /\ pc' = "run_return"
             /\ result'.kind \in {"Cancelled", "Err"}
             /\ fault' = "none" => result' = Cancelled
          ]_vars
    /\ [][ (KeyHandled /\ mode = "Navigate" /\ event' \in {Char("i"), Char("s")}) =>
             /\ mode' = "Search"
             /\ input' = input
             /\ selected' = selected
             /\ result'.kind \notin OkResults
          ]_vars

\* i, then q, i, s typed into the buffer
C15_Witness ==
    /\ pc = "loop"
    /\ keys_seen = <<Char("i"), Char("q"), Char("i"), Char("s")>>
    /\ mode = "Search"
    /\ input = <<"q", "i", "s">>

\* C16: Backspace in Search mode removes the last character of a non-empty
\* buffer, whatever its width in bytes, without a panic, and leaves an empty
\* buffer alone.
C16_BackspaceRemovesLastChar ==
    [][ (KeyHandled /\ mode = "Search" /\ event' = Backspace) =>
          /\ pc' # "panic_reported"
          /\ input' = IF input = <<>> THEN <<>> ELSE SubSeq(input, 1, Len(input) - 1)
          /\ mode' = mode /\ selected' = selected
      ]_vars

\* C17: with no hosts, Up and Down in Navigate mode do not panic and leave
\* the cursor at 0.
C17_MoveOnEmptyList ==
    [][ (KeyHandled /\ mode = "Navigate" /\ hosts = <<>> /\ event' \in UpKeys \cup DownKeys) =>
          /\ pc' # "panic_reported"
          /\ selected' = 0
      ]_vars

\* C18: a frame has host i at row 3+i, every row it writes to lies in
\* [1, rows], and draw() does not panic on a small terminal.
C18_FrameWithinRows ==
    /\ frame # NoFrame =>
          /\ \A i \in 1..Len(frame.entries) :
                 /\ frame.entries[i].row = 3 + (i - 1)
                 /\ frame.entries[i].row \in 1..rows
          /\ frame.promptRow \in 1..rows
          /\ frame.statusRow \in 1..rows
    /\ ~(pc = "panic_reported" /\ keys_read = 0)

\* C19: in Navigate mode the search buffer is empty.
C19_NavigateHasEmptyBuffer ==
    mode = "Navigate" => input = <<>>

\* i, z, Ctrl-C: back in Navigate, the buffer "z" is gone
C19_Witness ==
    /\ pc = "loop"
    /\ keys_seen = <<Char("i"), Char("z"), Ctrl("c")>>
    /\ mode = "Navigate"
    /\ input = <<>>

\* C20: without io::Errors two Ctrl-C presses in a row end the session with
\* Cancelled: the first leaves Search mode at most, the second quits from
\* Navigate; once run() has an Ok result it keeps it and no key is read.
C20_TwoCtrlCQuit ==
    /\ []((pc = "loop" /\ event = Ctrl("c")) => (mode = "Navigate" /\ input = <<>>))
    /\ [][ (KeyHandled /\ event' = Ctrl("c") /\ fault' = "none") =>
             IF mode = "Search"
             THEN pc' = "loop" /\ mode' = "Navigate" /\ result' = Pending
             ELSE pc' = "run_return" /\ result' = Cancelled
          ]_vars
    /\ [][ (pc = "loop" /\ event = Ctrl("c") /\ KeyHandled /\ event' = Ctrl("c")
            /\ fault' = "none") => result' = Cancelled ]_vars
    /\ [][ result.kind \in OkResults =>
             (result' = result /\ keys_read' = keys_read /\ event' = event) ]_vars

\* i, z, Ctrl-C, Ctrl-C has ended the session with Cancelled
C20_Witness ==
    /\ keys_seen = <<Char("i"), Char("z"), Ctrl("c"), Ctrl("c")>>
    /\ result = Cancelled
    /\ fault = "none"
    /\ pc = "exited"
    /\ exit_code = 0

====
